---- MODULE Spec2Model ----
(***************************************************************************)
(* The image-copy core of hangar's Source session (package source):        *)
(* Source.Copy dispatches on the manifest MIME of the opened image and     *)
(* drives one of five copy flows against a Destination, recording an       *)
(* archive.ImageSpec for every variant it copied.                          *)
(*                                                                         *)
(* The lower-level libraries (the containers/image copier, the manifest    *)
(* inspector, the destination) are the environment: each call into them    *)
(* either succeeds with the effect the options passed by the code request, *)
(* or fails, chosen nondeterministically.                                  *)
(***************************************************************************)
EXTENDS Integers, Sequences, FiniteSets, TLC

VARIABLES
    session,        \* the Source: mime, parsed manifest (list or image), config, manifestDigest
    opts,           \* the CopyOptions of the call: SigstorePrivateKey, Set, destination type
    dest,           \* what the Destination stores: {[name, manifest]}
    pc,             \* position of the Copy call: "idle", "list", "index", "done"
    idx,            \* index of the list entry the range loop is at
    copiedNum,      \* var copiedNum int of the list flows
    errs,           \* var errs []error of the list flows
    result,         \* the error value Copy returned
    copiedList,     \* s.copiedList
    copiedArch,     \* s.copiedArch (the keys of the map)
    copiedOS,       \* s.copiedOS (the keys of the map)
    copierLog,      \* invocations of copier.Copy made by the current call
    destQueries,    \* Destination.HaveDigest calls made by the current call
    openInspectors, \* manifest inspectors opened and not yet closed
    rawReads,       \* manifests returned by inspector.Raw during the current call
    configReads,    \* list entries whose config blob inspector.Config was asked for
    history,        \* (copied count, result) of the Copy calls that returned
    copiedImage,    \* the *archive.Image GetCopiedImage returned
    args,           \* arguments of a call of a pure helper
    returned        \* what that call returned

vars == <<session, opts, dest, pc, idx, copiedNum, errs, result, copiedList,
          copiedArch, copiedOS, copierLog, destQueries, openInspectors,
          rawReads, configReads, history, copiedImage, args, returned>>

-----------------------------------------------------------------------------
(* Bounds of the model.                                                    *)

\* longest manifest list / image index a session holds
MaxEntries == 2
\* Copy calls made on one session under SpecRerun
MaxRuns == 2
\* how far outside [MIN_WORKER_NUM, MAX_WORKER_NUM] a requested job count lies
JobsSlack == 3

-----------------------------------------------------------------------------
(* Manifest MIME types (containers/image manifest package, image-spec).    *)

DockerV2ListMediaType == "application/vnd.docker.distribution.manifest.list.v2+json"
DockerV2Schema2MediaType == "application/vnd.docker.distribution.manifest.v2+json"
DockerV2Schema1MediaType == "application/vnd.docker.distribution.manifest.v1+json"
DockerV2Schema1SignedMediaType == "application/vnd.docker.distribution.manifest.v1+prettyjws"
MediaTypeImageIndex == "application/vnd.oci.image.index.v1+json"
MediaTypeImageManifest == "application/vnd.oci.image.manifest.v1+json"
\* a MIME outside the six the dispatcher knows
UnknownMediaType == "application/vnd.example.unknown"

ListMIMEs == {DockerV2ListMediaType, MediaTypeImageIndex}
Schema1MIMEs == {DockerV2Schema1MediaType, DockerV2Schema1SignedMediaType}

\* types.TypeOci and one other destination kind
TypeOci == "oci"
TypeDocker == "docker"

\* s.referenceName and opts.Destination.ReferenceName()
SourceReferenceName == "registry/project/name:tag"
DestReferenceName == "dest/project/name:tag"

-----------------------------------------------------------------------------
(* Manifests and digests.  A manifest is its MIME and a body number that   *)
(* stands for the rest of its bytes; the digest is a function of both, so  *)
(* converting a manifest to another MIME changes its digest.               *)

Manifest(mediaType, body) == [mediaType |-> mediaType, body |-> body]

\* manifestv5.Digest(b): sha256 over the bytes
ManifestDigest(b) ==
    [algorithm |-> "sha256", encoded |-> b.mediaType \o "#" \o ToString(b.body)]

\* digest.Digest.Encoded(): the hex part, without the algorithm prefix
Encoded(d) == d.encoded

\* the layer descriptors of a manifest body: body 1 carries a foreign layer
LayersDescriptors(b) ==
    IF b.body = 1
    THEN << [Digest |-> "layer-a", URLs |-> <<>>],
            [Digest |-> "layer-foreign", URLs |-> <<"https://example.com/l">>],
            [Digest |-> "layer-b", URLs |-> <<>>] >>
    ELSE << [Digest |-> "layer-c", URLs |-> <<>>] >>

\* the config descriptor digest of a manifest body
ConfigDescriptorDigest(b) == "config-" \o ToString(b.body)

\* the image config blob an inspector returns for a copied list entry
ImageConfig(b) ==
    [Architecture |-> "cfg-arch", OS |-> "cfg-os", OSVersion |-> "10.0.17763.1",
     OSFeatures |-> <<"cfg-feature">>, Variant |-> "v8"]

-----------------------------------------------------------------------------
(* Collaborators outside the package, modelled from their contract.        *)

\* types.FilterSet.Allow: every non-empty dimension of the set holds the value
Allow(set, arch, os, variant) ==
    /\ (set.arch = {} \/ arch \in set.arch)
    /\ (set.os = {} \/ os \in set.os)
    /\ (set.variant = {} \/ variant \in set.variant)

\* Destination.HaveDigest: the destination stores a manifest with this digest
HaveDigest(store, d) == \E e \in store : ManifestDigest(e.manifest) = d

\* Destination.ReferenceMultiArch: the reference is named by its last component
ReferenceMultiArch(os, osVersion, arch, variant, digestEncoded) == digestEncoded

\* inspector.Raw on a destination reference: the manifest stored under the name
RawManifest(store, name) == (CHOOSE e \in store : e.name = name).manifest

\* the destination after a manifest was written under a name
StoreManifest(store, name, b) ==
    {e \in store : e.name # name} \cup {[name |-> name, manifest |-> b]}

-----------------------------------------------------------------------------
(* Pure helpers of the package.                                            *)

\* needInspectConfig asking for a windows config only when both are empty
needInspectConfigWindowsBoth(osInfo, arch, variant, osVersion, osFeatures) ==
    CASE osInfo = "windows" -> (osVersion = "" /\ Len(osFeatures) = 0)
      [] osInfo = "linux" -> (arch = "arm" /\ variant = "")
      [] OTHER -> FALSE

\* needInspectConfig
needInspectConfig(osInfo, arch, variant, osVersion, osFeatures) ==
    CASE osInfo = "windows" -> (osVersion = "" \/ Len(osFeatures) = 0)
      [] osInfo = "linux" -> (arch = "arm" /\ variant = "")
      [] OTHER -> FALSE

\* the loop of updateSpecDockerV2Schema2 / updateSpecImageManifest: the digests
\* of the layers without URLs, in order
RECURSIVE LocalLayers(_)
LocalLayers(layers) ==
    IF layers = <<>> THEN <<>>
    ELSE IF Len(Head(layers).URLs) # 0
         THEN LocalLayers(Tail(layers))
         ELSE <<Head(layers).Digest>> \o LocalLayers(Tail(layers))

\* the digests of all the layers, in order
AllLayers(layers) == [k \in DOMAIN layers |-> layers[k].Digest]

\* updateSpecDockerV2Schema2 without the test of layer.URLs
updateSpecDockerV2Schema2AllLayers(spec, schema2) ==
    [spec EXCEPT !.Config = ConfigDescriptorDigest(schema2),
                 !.Layers = spec.Layers \o AllLayers(LayersDescriptors(schema2))]

\* updateSpecDockerV2Schema2
updateSpecDockerV2Schema2(spec, schema2) ==
    [spec EXCEPT !.Config = ConfigDescriptorDigest(schema2),
                 !.Layers = spec.Layers \o LocalLayers(LayersDescriptors(schema2))]

\* updateSpecImageManifest
updateSpecImageManifest(spec, ociManifest) ==
    [spec EXCEPT !.Config = ConfigDescriptorDigest(ociManifest),
                 !.Layers = spec.Layers \o LocalLayers(LayersDescriptors(ociManifest))]

\* copyImage without the case of the list and index MIME types
CopyImageRefusesNothing(sourceMIME) == FALSE

\* copyImage refuses a list or index before it builds the copier
CopyImageRefuses(sourceMIME) == sourceMIME \in ListMIMEs

\* the manifest copier.Copy leaves at the destination: schema 1 is converted to
\* schema 2 (ForceManifestMIMEType), anything else is kept (PreserveDigests)
CopiedManifest(src, sourceMIME) ==
    IF sourceMIME \in Schema1MIMEs
    THEN Manifest(DockerV2Schema2MediaType, src.body)
    ELSE src

\* archive.ImageSpec
ImageSpec(arch, os, osVersion, osFeatures, variant, mediaType, config, digest) ==
    [Arch |-> arch, OS |-> os, OSVersion |-> osVersion, OSFeatures |-> osFeatures,
     Variant |-> variant, MediaType |-> mediaType, Layers |-> <<>>,
     Config |-> config, Digest |-> digest]

-----------------------------------------------------------------------------
(* One iteration of the range loop of copyDockerV2ListMediaType and of     *)
(* copyMediaTypeImageIndex (the two bodies are the same statements).       *)

\* the places where a call made by one iteration can fail
FailPoints == {"none", "sourceRef", "destRef", "copy", "newInspector", "raw",
               "config", "unmarshalConfig", "digest", "parse"}

\* what one iteration did: the path it took, the error it appended (if any),
\* its calls into the destination, the copier and the inspector, and the spec
\* it recorded
Outcome(path, err, queried, copier, store, opened, raw, spec) ==
    [path |-> path, err |-> err, queried |-> queried, copier |-> copier,
     store |-> store, opened |-> opened, raw |-> raw, config |-> 0, spec |-> spec]

\* the iteration also called inspector.Config
WithConfig(out) == [out EXCEPT !.config = 1]

\* the entry of a copier.Copy invocation in copierLog
CopierCall(name, sourceMIME, present) ==
    [name |-> name, sourceMIME |-> sourceMIME, present |-> present]

\* EntrySpec with the digest the list entry advertises in place of the
\* recomputed one
EntrySpecAdvertised(m, b, osVersion, osFeatures, variant) ==
    ImageSpec(m.Platform.Architecture, m.Platform.OS, osVersion, osFeatures, variant,
              m.MediaType, "", m.Digest)

\* lines 192-202: the spec of a list entry m whose destination manifest is b
EntrySpec(m, b, osVersion, osFeatures, variant) ==
    ImageSpec(m.Platform.Architecture, m.Platform.OS, osVersion, osFeatures, variant,
              m.MediaType, "", ManifestDigest(b))

\* InspectedEntry with the config values written over the list entry's
InspectedEntryOverwriting(m, b, fail, queried, call, store) ==
    LET p == m.Platform
        imageMIME == b.mediaType
        need == needInspectConfig(p.OS, p.Architecture, p.Variant, p.OSVersion, p.OSFeatures)
        c == ImageConfig(b)
        osVersion == IF need THEN c.OSVersion ELSE p.OSVersion
        osFeatures == IF need THEN c.OSFeatures ELSE p.OSFeatures
        variant == IF need THEN c.Variant ELSE p.Variant
        spec == EntrySpec(m, b, osVersion, osFeatures, variant)
        Fetched(out) == IF need THEN WithConfig(out) ELSE out
        Failed(e) == Fetched(Outcome("failed", e, queried, call, store, 1, <<b>>, <<>>))
    IN  IF need /\ fail \in {"config", "unmarshalConfig"} THEN Failed("ErrInspectFailed")
        ELSE IF fail = "digest" THEN Failed("ErrInspectFailed")
        ELSE IF imageMIME = DockerV2Schema2MediaType
             THEN IF fail = "parse" THEN Failed("ErrParse")
                  ELSE Fetched(Outcome("recorded", "", queried, call, store, 1, <<b>>,
                                       <<updateSpecDockerV2Schema2(spec, b)>>))
        ELSE IF imageMIME = MediaTypeImageManifest
             THEN IF fail = "parse" THEN Failed("ErrParse")
                  ELSE Fetched(Outcome("recorded", "", queried, call, store, 1, <<b>>,
                                       <<updateSpecImageManifest(spec, b)>>))
        ELSE Failed("ErrManifestUnsupported")

\* lines 165-229: from the re-read manifest b to the recorded spec
InspectedEntry(m, b, fail, queried, call, store) ==
    LET p == m.Platform
        imageMIME == b.mediaType
        need == needInspectConfig(p.OS, p.Architecture, p.Variant, p.OSVersion, p.OSFeatures)
        c == ImageConfig(b)
        osVersion == IF need /\ p.OSVersion = "" THEN c.OSVersion ELSE p.OSVersion
        osFeatures == IF need /\ Len(p.OSFeatures) = 0 THEN c.OSFeatures ELSE p.OSFeatures
        variant == IF need /\ p.Variant = "" THEN c.Variant ELSE p.Variant
        spec == EntrySpec(m, b, osVersion, osFeatures, variant)
        Fetched(out) == IF need THEN WithConfig(out) ELSE out
        Failed(e) == Fetched(Outcome("failed", e, queried, call, store, 1, <<b>>, <<>>))
    IN  IF need /\ fail \in {"config", "unmarshalConfig"} THEN Failed("ErrInspectFailed")
        ELSE IF fail = "digest" THEN Failed("ErrInspectFailed")
        ELSE IF imageMIME = DockerV2Schema2MediaType
             THEN IF fail = "parse" THEN Failed("ErrParse")
                  ELSE Fetched(Outcome("recorded", "", queried, call, store, 1, <<b>>,
                                       <<updateSpecDockerV2Schema2(spec, b)>>))
        ELSE IF imageMIME = MediaTypeImageManifest
             THEN IF fail = "parse" THEN Failed("ErrParse")
                  ELSE Fetched(Outcome("recorded", "", queried, call, store, 1, <<b>>,
                                       <<updateSpecImageManifest(spec, b)>>))
        ELSE Failed("ErrManifestUnsupported")

\* lines 119-164: references, copyImage, the inspector and its Raw
CopiedEntry(m, key, store, fail, queried) ==
    LET p == m.Platform
        name == ReferenceMultiArch(p.OS, p.OSVersion, p.Architecture, p.Variant,
                                   Encoded(m.Digest))
        call == <<CopierCall(name, m.MediaType, HaveDigest(store, m.Digest))>>
        stored == StoreManifest(store, name,
                                CopiedManifest(Manifest(m.MediaType, m.body), m.MediaType))
    IN  IF fail \in {"sourceRef", "destRef"}
        THEN Outcome("failed", "ErrBadReference", queried, <<>>, store, 0, <<>>, <<>>)
        ELSE IF CopyImageRefuses(m.MediaType)
        THEN Outcome("failed", "ErrNotSingleImage", queried, <<>>, store, 0, <<>>, <<>>)
        ELSE IF fail = "copy"
        THEN Outcome("failed", "ErrTransport", queried, call, store, 0, <<>>, <<>>)
        ELSE IF fail = "newInspector"
        THEN Outcome("failed", "ErrInspectFailed", queried, call, stored, 0, <<>>, <<>>)
        ELSE IF fail = "raw"
        THEN Outcome("failed", "ErrInspectFailed", queried, call, stored, 1, <<>>, <<>>)
        ELSE InspectedEntry(m, RawManifest(stored, name), fail, queried, call, stored)

\* EntryOutcome with the fast path skipping the entry without counting it
EntryOutcomeSkipUncounted(m, set, key, store, fail) ==
    IF ~Allow(set, m.Platform.Architecture, m.Platform.OS, m.Platform.Variant)
    THEN Outcome("filtered", "", 0, <<>>, store, 0, <<>>, <<>>)
    ELSE IF key = "" /\ HaveDigest(store, m.Digest)
    THEN Outcome("filtered", "", 1, <<>>, store, 0, <<>>, <<>>)
    ELSE CopiedEntry(m, key, store, fail, IF key = "" THEN 1 ELSE 0)

\* EntryOutcome with the fast path of line 113 taken whatever the key
EntryOutcomeUngated(m, set, key, store, fail) ==
    IF ~Allow(set, m.Platform.Architecture, m.Platform.OS, m.Platform.Variant)
    THEN Outcome("filtered", "", 0, <<>>, store, 0, <<>>, <<>>)
    ELSE IF HaveDigest(store, m.Digest)
    THEN Outcome("skipped", "", 0, <<>>, store, 0, <<>>, <<>>)
    ELSE CopiedEntry(m, key, store, fail, IF key = "" THEN 1 ELSE 0)

\* EntryOutcome without the Allow check of line 110
EntryOutcomeUnfiltered(m, set, key, store, fail) ==
    IF key = "" /\ HaveDigest(store, m.Digest)
    THEN Outcome("skipped", "", 1, <<>>, store, 0, <<>>, <<>>)
    ELSE CopiedEntry(m, key, store, fail, IF key = "" THEN 1 ELSE 0)

\* EntryOutcome with a spec recorded for an entry the fast path skips
EntryOutcomeSkipRecorded(m, set, key, store, fail) ==
    IF ~Allow(set, m.Platform.Architecture, m.Platform.OS, m.Platform.Variant)
    THEN Outcome("filtered", "", 0, <<>>, store, 0, <<>>, <<>>)
    ELSE IF key = "" /\ HaveDigest(store, m.Digest)
    THEN Outcome("skipped", "", 1, <<>>, store, 0, <<>>,
                 <<EntrySpecAdvertised(m, Manifest(m.MediaType, m.body),
                                       m.Platform.OSVersion, m.Platform.OSFeatures,
                                       m.Platform.Variant)>>)
    ELSE CopiedEntry(m, key, store, fail, IF key = "" THEN 1 ELSE 0)

\* lines 100-117: the filter and the fast path, then the copy
EntryOutcome(m, set, key, store, fail) ==
    LET p == m.Platform
        queried == IF key = "" THEN 1 ELSE 0
    IN  IF ~Allow(set, p.Architecture, p.OS, p.Variant)
        THEN Outcome("filtered", "", 0, <<>>, store, 0, <<>>, <<>>)
        ELSE IF key = "" /\ HaveDigest(store, m.Digest)
        THEN Outcome("skipped", "", 1, <<>>, store, 0, <<>>, <<>>)
        ELSE CopiedEntry(m, key, store, fail, queried)

-----------------------------------------------------------------------------
(* The sessions, options and destinations the model starts from.           *)

\* platform tuples of list entries and image configs
Platforms ==
    {p \in [Architecture : {"amd64", "arm"}, OS : {"linux", "windows"},
            OSVersion : {"", "10.0.17763"}, OSFeatures : {<<>>, <<"win32k">>},
            Variant : {"", "v7"}] :
        /\ p.OS = "linux" => (p.OSVersion = "" /\ p.OSFeatures = <<>>)
        /\ p.Architecture = "amd64" => p.Variant = ""
        /\ p.OS = "windows" => p.Architecture = "amd64"
        /\ p.OSFeatures # <<>> => p.OSVersion # ""}

PlainPlatform ==
    [Architecture |-> "amd64", OS |-> "linux", OSVersion |-> "",
     OSFeatures |-> <<>>, Variant |-> ""]

\* MIME types a list entry declares
EntryMIMEs == {DockerV2Schema2MediaType, MediaTypeImageManifest,
               DockerV2Schema1MediaType, MediaTypeImageIndex, UnknownMediaType}

\* (MIME, platform) of a list entry: every platform as a schema-2 image, and
\* every MIME on the plain platform
EntryShapes ==
    {sh \in [MediaType : EntryMIMEs, Platform : Platforms] :
        sh.MediaType = DockerV2Schema2MediaType \/ sh.Platform = PlainPlatform}

\* the manifest descriptor at position i of a list: its digest is the digest
\* of the manifest the source registry serves for it
Descriptor(sh, i) ==
    [MediaType |-> sh.MediaType, Platform |-> sh.Platform, body |-> i,
     Digest |-> ManifestDigest(Manifest(sh.MediaType, i))]

Descriptors(shapes) == [i \in 1..Len(shapes) |-> Descriptor(shapes[i], i)]

ShapeLists == UNION {[1..n -> EntryShapes] : n \in 0..MaxEntries}

ListSession(mime, shapes) ==
    [mime |-> mime, manifests |-> Descriptors(shapes), manifest |-> Manifest(mime, 0),
     config |-> PlainPlatform, manifestDigest |-> ManifestDigest(Manifest(mime, 0))]

ImageSession(mime, platform) ==
    [mime |-> mime, manifests |-> <<>>, manifest |-> Manifest(mime, 1),
     config |-> platform, manifestDigest |-> ManifestDigest(Manifest(mime, 1))]

ListSessions == {ListSession(mime, shapes) : mime \in ListMIMEs, shapes \in ShapeLists}

ImageMIMEs == {DockerV2Schema2MediaType, MediaTypeImageManifest} \cup Schema1MIMEs

ImageSessions ==
    {ImageSession(mime, p) : mime \in ImageMIMEs \cup {UnknownMediaType}, p \in Platforms}

\* filter sets that restrict at most one dimension
FilterSets ==
    {f \in [arch : {{}, {"amd64"}}, os : {{}, {"linux"}}, variant : {{}, {"v7"}}] :
        Cardinality({f.arch, f.os, f.variant} \ {{}}) <= 1}

CopyOptions(types) ==
    [SigstorePrivateKey : {"", "cosign.key"}, Set : FilterSets, destType : types]

\* what an earlier copy of the image left at the destination
LeftByImage(s, destType) ==
    LET b == CopiedManifest(s.manifest, s.mime)
    IN  {[name |-> IF s.mime \in Schema1MIMEs /\ destType # TypeOci
                   THEN "UNKNOW" ELSE Encoded(ManifestDigest(b)),
          manifest |-> b]}

\* what an earlier copy of the entries I of the list left at the destination
LeftByEntries(s, I) ==
    {[name |-> Encoded(s.manifests[i].Digest),
      manifest |-> CopiedManifest(Manifest(s.manifests[i].MediaType, i),
                                  s.manifests[i].MediaType)] : i \in I}

Copyable(s) == {i \in DOMAIN s.manifests : ~CopyImageRefuses(s.manifests[i].MediaType)}

\* GetCopiedImage was not called; no pure helper was called
NoImage == <<>>
NoCall == <<>>

\* the state of a session after construction, before Copy was called
Fresh ==
    /\ pc = "idle"
    /\ idx = 1
    /\ copiedNum = 0
    /\ errs = <<>>
    /\ result = [kind |-> "none"]
    /\ copiedList = <<>>
    /\ copiedArch = {}
    /\ copiedOS = {}
    /\ copierLog = <<>>
    /\ destQueries = 0
    /\ openInspectors = 0
    /\ rawReads = <<>>
    /\ configReads = <<>>
    /\ history = <<>>
    /\ copiedImage = NoImage

InitList ==
    /\ session \in ListSessions
    /\ opts \in CopyOptions({TypeDocker})
    /\ dest \in {LeftByEntries(session, I) : I \in SUBSET Copyable(session)}
    /\ Fresh
    /\ args = NoCall
    /\ returned = NoCall

InitImage ==
    /\ session \in ImageSessions
    /\ opts \in CopyOptions({TypeOci, TypeDocker})
    /\ dest \in {{}, LeftByImage(session, opts.destType)}
    /\ Fresh
    /\ args = NoCall
    /\ returned = NoCall

Init == InitList \/ InitImage

-----------------------------------------------------------------------------
(* Session accumulators.                                                   *)

\* recordCopiedImage that leaves copiedOS alone
recordCopiedImageNoOS(acc, image) ==
    [list |-> Append(acc.list, image),
     arch |-> acc.arch \cup {image.Arch},
     os |-> acc.os]

\* recordCopiedImage that puts the image in front of the list
recordCopiedImagePrepend(acc, image) ==
    [list |-> <<image>> \o acc.list,
     arch |-> acc.arch \cup {image.Arch},
     os |-> acc.os \cup {image.OS}]

\* recordCopiedImage that starts the list over
recordCopiedImageReplacing(acc, image) ==
    [list |-> <<image>>,
     arch |-> acc.arch \cup {image.Arch},
     os |-> acc.os \cup {image.OS}]

\* recordCopiedImage, on the three accumulators
recordCopiedImage(acc, image) ==
    [list |-> Append(acc.list, image),
     arch |-> acc.arch \cup {image.Arch},
     os |-> acc.os \cup {image.OS}]

Accumulators == [list |-> copiedList, arch |-> copiedArch, os |-> copiedOS]

\* the accumulators after the specs of a sequence were recorded in order
RECURSIVE RecordAll(_, _)
RecordAll(acc, specs) ==
    IF specs = <<>> THEN acc
    ELSE RecordAll(recordCopiedImage(acc, Head(specs)), Tail(specs))

Record(specs) ==
    LET acc == RecordAll(Accumulators, specs)
    IN  /\ copiedList' = acc.list
        /\ copiedArch' = acc.arch
        /\ copiedOS' = acc.os

\* Copy returns err to its caller
Return(err, num) ==
    /\ pc' = "done"
    /\ result' = err
    /\ history' = Append(history, [copied |-> num, result |-> err.kind])

Nil == [kind |-> "nil"]
ErrNoAvailableImage == [kind |-> "ErrNoAvailableImage"]
Error(kind) == [kind |-> kind]

-----------------------------------------------------------------------------
(* The list flows.                                                         *)

\* InspectorsClosedAtReturn with Close called on the success path only
InspectorsClosedOnSuccess(open, err) == IF err.kind = "nil" THEN open ELSE 0

\* defer inspector.Close(), lines 158, 312 and 513: how many of the open
\* inspectors the return of the flow closes, whatever it returns
InspectorsClosedAtReturn(open, err) == open

\* Copy, lines 43-46 and 55-57: a list or an index enters its range loop
CopyListBegin ==
    /\ pc = "idle"
    /\ session.mime \in ListMIMEs
    /\ pc' = IF session.mime = DockerV2ListMediaType THEN "list" ELSE "index"
    /\ UNCHANGED <<session, opts, dest, idx, copiedNum, errs, result, copiedList,
                   copiedArch, copiedOS, copierLog, destQueries, openInspectors,
                   rawReads, configReads, history, copiedImage, args, returned>>

\* ApplyEntry with the loop left at the first failed entry
ApplyEntryAborting(out) ==
    /\ idx' = IF out.path = "failed" THEN Len(session.manifests) + 1 ELSE idx + 1
    /\ copiedNum' = IF out.path \in {"skipped", "recorded"} THEN copiedNum + 1 ELSE copiedNum
    /\ errs' = IF out.path = "failed"
               THEN Append(errs, [entry |-> idx, err |-> out.err]) ELSE errs
    /\ dest' = out.store
    /\ copierLog' = copierLog \o out.copier
    /\ destQueries' = destQueries + out.queried
    /\ openInspectors' = openInspectors + out.opened
    /\ rawReads' = rawReads \o out.raw
    /\ configReads' = IF out.config = 1 THEN Append(configReads, idx) ELSE configReads
    /\ Record(out.spec)
    /\ UNCHANGED <<session, opts, pc, result, history, copiedImage, args, returned>>

\* the effect of one iteration on the state
ApplyEntry(out) ==
    /\ idx' = idx + 1
    /\ copiedNum' = IF out.path \in {"skipped", "recorded"} THEN copiedNum + 1 ELSE copiedNum
    /\ errs' = IF out.path = "failed"
               THEN Append(errs, [entry |-> idx, err |-> out.err]) ELSE errs
    /\ dest' = out.store
    /\ copierLog' = copierLog \o out.copier
    /\ destQueries' = destQueries + out.queried
    /\ openInspectors' = openInspectors + out.opened
    /\ rawReads' = rawReads \o out.raw
    /\ configReads' = IF out.config = 1 THEN Append(configReads, idx) ELSE configReads
    /\ Record(out.spec)
    /\ UNCHANGED <<session, opts, pc, result, history, copiedImage, args, returned>>

\* copyDockerV2ListMediaType, lines 100-236: one iteration
CopyDockerV2ListEntry ==
    /\ pc = "list"
    /\ idx <= Len(session.manifests)
    /\ \E fail \in FailPoints :
          ApplyEntry(EntryOutcome(session.manifests[idx], opts.Set,
                                  opts.SigstorePrivateKey, dest, fail))

\* copyMediaTypeImageIndex, lines 254-390: one iteration
CopyImageIndexEntry ==
    /\ pc = "index"
    /\ idx <= Len(session.manifests)
    /\ \E fail \in FailPoints :
          ApplyEntry(EntryOutcome(session.manifests[idx], opts.Set,
                                  opts.SigstorePrivateKey, dest, fail))

\* ListError wrapping only the first per-entry error
ListErrorFirstOnly(es) ==
    IF Len(es) > 0
    THEN [kind |-> "composite", source |-> SourceReferenceName,
          destination |-> DestReferenceName, joined |-> <<es[1]>>]
    ELSE Nil

\* lines 238-245 and 391-398: the error a list flow returns with its count
ListError(es) ==
    IF Len(es) > 0
    THEN [kind |-> "composite", source |-> SourceReferenceName,
          destination |-> DestReferenceName, joined |-> es]
    ELSE Nil

\* CopyListResult with the count looked at before the error
CopyListResultCountFirst(num, err) ==
    IF num = 0 THEN ErrNoAvailableImage
    ELSE IF err.kind # "nil" THEN err
    ELSE Nil

\* Copy, lines 47-54 and 58-65: what Copy makes of (num, err)
CopyListResult(num, err) ==
    IF err.kind # "nil" THEN err
    ELSE IF num = 0 THEN ErrNoAvailableImage
    ELSE Nil

\* the loop is over: the deferred inspector.Close calls run, the list flow
\* returns (copiedNum, err) and Copy returns
CopyListReturn ==
    /\ pc \in {"list", "index"}
    /\ idx > Len(session.manifests)
    /\ openInspectors' = openInspectors
                          - InspectorsClosedAtReturn(openInspectors, ListError(errs))
    /\ Return(CopyListResult(copiedNum, ListError(errs)), copiedNum)
    /\ UNCHANGED <<session, opts, dest, idx, copiedNum, errs, copiedList,
                   copiedArch, copiedOS, copierLog, destQueries, rawReads,
                   configReads, copiedImage, args, returned>>

-----------------------------------------------------------------------------
(* The single-image flows.  Each runs from the dispatch in Copy to the     *)
(* return; an inspector it opens is closed by its defer at the return.     *)

\* what a single-image flow did
Flow(err, queried, copier, store, raw, spec) ==
    [err |-> err, queried |-> queried, copier |-> copier, store |-> store,
     opened |-> 0, raw |-> raw, spec |-> spec]

\* the flow also opened a manifest inspector
WithInspector(f) == [f EXCEPT !.opened = 1]

\* Schema2Flow with the fast path tried before the filter
Schema2FlowFastPathFirst(s, o, store, fail) ==
    LET c == s.config
        name == ReferenceMultiArch(c.OS, c.OSVersion, c.Architecture, c.Variant,
                                   Encoded(s.manifestDigest))
        queried == IF o.SigstorePrivateKey = "" THEN 1 ELSE 0
        call == <<CopierCall(name, s.mime, HaveDigest(store, s.manifestDigest))>>
        spec == ImageSpec(c.Architecture, c.OS, c.OSVersion, c.OSFeatures, c.Variant,
                          s.mime, ConfigDescriptorDigest(s.manifest), s.manifestDigest)
    IN  IF o.SigstorePrivateKey = "" /\ HaveDigest(store, s.manifestDigest)
        THEN Flow(Nil, 1, <<>>, store, <<>>, <<>>)
        ELSE IF ~Allow(o.Set, c.Architecture, c.OS, c.Variant)
        THEN Flow(ErrNoAvailableImage, queried, <<>>, store, <<>>, <<>>)
        ELSE IF fail \in {"sourceRef", "destRef"}
        THEN Flow(Error("ErrBadReference"), queried, <<>>, store, <<>>, <<>>)
        ELSE IF fail = "copy"
        THEN Flow(Error("ErrTransport"), queried, call, store, <<>>, <<>>)
        ELSE Flow(Nil, queried, call,
                  StoreManifest(store, name, CopiedManifest(s.manifest, s.mime)),
                  <<>>, <<updateSpecDockerV2Schema2(spec, s.manifest)>>)

\* copyDockerV2Schema2MediaType
Schema2Flow(s, o, store, fail) ==
    LET c == s.config
        name == ReferenceMultiArch(c.OS, c.OSVersion, c.Architecture, c.Variant,
                                   Encoded(s.manifestDigest))
        queried == IF o.SigstorePrivateKey = "" THEN 1 ELSE 0
        call == <<CopierCall(name, s.mime, HaveDigest(store, s.manifestDigest))>>
        spec == ImageSpec(c.Architecture, c.OS, c.OSVersion, c.OSFeatures, c.Variant,
                          s.mime, ConfigDescriptorDigest(s.manifest), s.manifestDigest)
    IN  IF ~Allow(o.Set, c.Architecture, c.OS, c.Variant)
        THEN Flow(ErrNoAvailableImage, 0, <<>>, store, <<>>, <<>>)
        ELSE IF o.SigstorePrivateKey = "" /\ HaveDigest(store, s.manifestDigest)
        THEN Flow(Nil, 1, <<>>, store, <<>>, <<>>)
        ELSE IF fail \in {"sourceRef", "destRef"}
        THEN Flow(Error("ErrBadReference"), queried, <<>>, store, <<>>, <<>>)
        ELSE IF CopyImageRefuses(s.mime)
        THEN Flow(Error("ErrNotSingleImage"), queried, <<>>, store, <<>>, <<>>)
        ELSE IF fail = "copy"
        THEN Flow(Error("ErrTransport"), queried, call, store, <<>>, <<>>)
        ELSE Flow(Nil, queried, call,
                  StoreManifest(store, name, CopiedManifest(s.manifest, s.mime)),
                  <<>>, <<updateSpecDockerV2Schema2(spec, s.manifest)>>)

\* copyMediaTypeImageManifest
ImageManifestFlow(s, o, store, fail) ==
    LET c == s.config
        name == ReferenceMultiArch(c.OS, c.OSVersion, c.Architecture, c.Variant,
                                   Encoded(s.manifestDigest))
        call == <<CopierCall(name, s.mime, HaveDigest(store, s.manifestDigest))>>
        spec == ImageSpec(c.Architecture, c.OS, c.OSVersion, c.OSFeatures, c.Variant,
                          s.mime, ConfigDescriptorDigest(s.manifest), s.manifestDigest)
    IN  IF ~Allow(o.Set, c.Architecture, c.OS, c.Variant)
        THEN Flow(ErrNoAvailableImage, 0, <<>>, store, <<>>, <<>>)
        ELSE IF fail \in {"sourceRef", "destRef"}
        THEN Flow(Error("ErrBadReference"), 0, <<>>, store, <<>>, <<>>)
        ELSE IF CopyImageRefuses(s.mime)
        THEN Flow(Error("ErrNotSingleImage"), 0, <<>>, store, <<>>, <<>>)
        ELSE IF fail = "copy"
        THEN Flow(Error("ErrTransport"), 0, call, store, <<>>, <<>>)
        ELSE Flow(Nil, 0, call,
                  StoreManifest(store, name, CopiedManifest(s.manifest, s.mime)),
                  <<>>, <<updateSpecImageManifest(spec, s.manifest)>>)

\* os.Rename(o, n) of a directory of the destination: it fails when n exists
\* and holds an image
RenameFails(store, o, n) ==
    \/ ~\E e \in store : e.name = o
    \/ \E e \in store : e.name = n

\* Rename that leaves the directory where it is
RenameSkipped(store, o, n) == store

\* os.Rename(o, n) that succeeded
Rename(store, o, n) ==
    {IF e.name = o THEN [e EXCEPT !.name = n] ELSE e : e \in store}

\* Schema1Flow with the spec recorded before the rename
Schema1FlowRecordFirst(s, o, store, fail) ==
    LET c == s.config
        osVersion == ""
        name == ReferenceMultiArch(c.OS, osVersion, c.Architecture, c.Variant, "UNKNOW")
        call == <<CopierCall(name, s.mime, HaveDigest(store, s.manifestDigest))>>
        stored == StoreManifest(store, name, CopiedManifest(s.manifest, s.mime))
        b == RawManifest(stored, name)
        manifestDigest == ManifestDigest(b)
        spec == ImageSpec(c.Architecture, c.OS, osVersion, <<>>, c.Variant,
                          b.mediaType, ConfigDescriptorDigest(b), manifestDigest)
        n == Encoded(manifestDigest)
    IN  IF ~Allow(o.Set, c.Architecture, c.OS, c.Variant)
        THEN Flow(ErrNoAvailableImage, 0, <<>>, store, <<>>, <<>>)
        ELSE IF fail \in {"sourceRef", "destRef"}
        THEN Flow(Error("ErrBadReference"), 0, <<>>, store, <<>>, <<>>)
        ELSE IF CopyImageRefuses(s.mime)
        THEN Flow(Error("ErrNotSingleImage"), 0, <<>>, store, <<>>, <<>>)
        ELSE IF fail = "copy"
        THEN Flow(Error("ErrTransport"), 0, call, store, <<>>, <<>>)
        ELSE IF fail = "newInspector"
        THEN Flow(Error("ErrInspectFailed"), 0, call, stored, <<>>, <<>>)
        ELSE IF fail = "raw"
        THEN WithInspector(Flow(Error("ErrInspectFailed"), 0, call, stored, <<>>, <<>>))
        ELSE IF fail = "digest"
        THEN WithInspector(Flow(Error("ErrInspectFailed"), 0, call, stored, <<b>>, <<>>))
        ELSE IF fail = "parse" \/ b.mediaType # DockerV2Schema2MediaType
        THEN WithInspector(Flow(Error("ErrParse"), 0, call, stored, <<b>>, <<>>))
        ELSE IF o.destType = TypeOci /\ (fail = "rename" \/ RenameFails(stored, "UNKNOW", n))
        THEN WithInspector(Flow(Error("ErrRenameFailed"), 0, call, stored, <<b>>,
                                <<updateSpecDockerV2Schema2(spec, b)>>))
        ELSE WithInspector(Flow(Nil, 0, call,
                  IF o.destType = TypeOci THEN Rename(stored, "UNKNOW", n) ELSE stored,
                  <<b>>, <<updateSpecDockerV2Schema2(spec, b)>>))

\* copyDockerV2Schema1MediaType
Schema1Flow(s, o, store, fail) ==
    LET c == s.config
        osVersion == ""
        name == ReferenceMultiArch(c.OS, osVersion, c.Architecture, c.Variant, "UNKNOW")
        call == <<CopierCall(name, s.mime, HaveDigest(store, s.manifestDigest))>>
        stored == StoreManifest(store, name, CopiedManifest(s.manifest, s.mime))
        b == RawManifest(stored, name)
        manifestDigest == ManifestDigest(b)
        spec == ImageSpec(c.Architecture, c.OS, osVersion, <<>>, c.Variant,
                          b.mediaType, ConfigDescriptorDigest(b), manifestDigest)
        n == Encoded(manifestDigest)
    IN  IF ~Allow(o.Set, c.Architecture, c.OS, c.Variant)
        THEN Flow(ErrNoAvailableImage, 0, <<>>, store, <<>>, <<>>)
        ELSE IF fail \in {"sourceRef", "destRef"}
        THEN Flow(Error("ErrBadReference"), 0, <<>>, store, <<>>, <<>>)
        ELSE IF CopyImageRefuses(s.mime)
        THEN Flow(Error("ErrNotSingleImage"), 0, <<>>, store, <<>>, <<>>)
        ELSE IF fail = "copy"
        THEN Flow(Error("ErrTransport"), 0, call, store, <<>>, <<>>)
        ELSE IF fail = "newInspector"
        THEN Flow(Error("ErrInspectFailed"), 0, call, stored, <<>>, <<>>)
        ELSE IF fail = "raw"
        THEN WithInspector(Flow(Error("ErrInspectFailed"), 0, call, stored, <<>>, <<>>))
        ELSE IF fail = "digest"
        THEN WithInspector(Flow(Error("ErrInspectFailed"), 0, call, stored, <<b>>, <<>>))
        ELSE IF fail = "parse" \/ b.mediaType # DockerV2Schema2MediaType
        THEN WithInspector(Flow(Error("ErrParse"), 0, call, stored, <<b>>, <<>>))
        ELSE IF o.destType = TypeOci /\ (fail = "rename" \/ RenameFails(stored, "UNKNOW", n))
        THEN WithInspector(Flow(Error("ErrRenameFailed"), 0, call, stored, <<b>>, <<>>))
        ELSE WithInspector(Flow(Nil, 0, call,
                  IF o.destType = TypeOci THEN Rename(stored, "UNKNOW", n) ELSE stored,
                  <<b>>, <<updateSpecDockerV2Schema2(spec, b)>>))

\* the effect of a single-image flow on the state, and Copy's return
ApplyFlow(f) ==
    /\ dest' = f.store
    /\ copierLog' = copierLog \o f.copier
    /\ destQueries' = destQueries + f.queried
    /\ rawReads' = rawReads \o f.raw
    /\ Record(f.spec)
    /\ openInspectors' = openInspectors + f.opened
                          - InspectorsClosedAtReturn(f.opened, f.err)
    /\ Return(f.err, Len(f.spec))
    /\ UNCHANGED <<session, opts, idx, copiedNum, errs, configReads, copiedImage, args,
                   returned>>

\* Copy, lines 66-72
CopySchema2 ==
    /\ pc = "idle"
    /\ session.mime = DockerV2Schema2MediaType
    /\ \E fail \in {"none", "sourceRef", "destRef", "copy"} :
          ApplyFlow(Schema2Flow(session, opts, dest, fail))

\* Copy, lines 73-80
CopySchema1 ==
    /\ pc = "idle"
    /\ session.mime \in Schema1MIMEs
    /\ \E fail \in {"none", "sourceRef", "destRef", "copy", "newInspector", "raw",
                    "digest", "parse", "rename"} :
          ApplyFlow(Schema1Flow(session, opts, dest, fail))

\* Copy, lines 81-87
CopyImageManifest ==
    /\ pc = "idle"
    /\ session.mime = MediaTypeImageManifest
    /\ \E fail \in {"none", "sourceRef", "destRef", "copy"} :
          ApplyFlow(ImageManifestFlow(session, opts, dest, fail))

\* CopyUnsupported with the default case handled like an OCI image manifest
CopyUnsupportedAsImage ==
    /\ pc = "idle"
    /\ session.mime \notin ListMIMEs \cup ImageMIMEs
    /\ \E fail \in {"none", "sourceRef", "destRef", "copy"} :
          ApplyFlow(ImageManifestFlow(session, opts, dest, fail))

\* Copy, lines 88-91: any other MIME
CopyUnsupported ==
    /\ pc = "idle"
    /\ session.mime \notin ListMIMEs \cup ImageMIMEs
    /\ Return([kind |-> "ErrUnsupportedMIME", mime |-> session.mime], 0)
    /\ UNCHANGED <<session, opts, dest, idx, copiedNum, errs, copiedList, copiedArch,
                   copiedOS, copierLog, destQueries, openInspectors, rawReads,
                   configReads, copiedImage, args, returned>>

\* RangeOrders with keys visited more than once
RangeOrdersRepeating(S) == [1..Cardinality(S) -> S]

\* the orders in which a range over a map with the keys S visits them: every
\* key once, in an order the runtime chooses
RangeOrders(S) ==
    {o \in [1..Cardinality(S) -> S] : \A i, j \in DOMAIN o : i # j => o[i] # o[j]}

\* fmt.Sprintf("%s/%s/%s", s.registry, s.project, s.name) and s.tag
SourceName == "registry/project/name"
SourceTag == "tag"

\* GetCopiedImage, lines 611-630, called after Copy returned
GetCopiedImage ==
    /\ pc = "done"
    /\ \E archies \in RangeOrders(copiedArch), oses \in RangeOrders(copiedOS) :
          copiedImage' = << [Source |-> SourceName, Tag |-> SourceTag,
                             ArchList |-> archies, OsList |-> oses,
                             Images |-> copiedList] >>
    /\ UNCHANGED <<session, opts, dest, pc, idx, copiedNum, errs, result, copiedList,
                   copiedArch, copiedOS, copierLog, destQueries, openInspectors,
                   rawReads, configReads, history, args, returned>>

Next ==
    \/ CopyListBegin
    \/ CopyDockerV2ListEntry
    \/ CopyImageIndexEntry
    \/ CopyListReturn
    \/ CopySchema2
    \/ CopySchema1
    \/ CopyImageManifest
    \/ CopyUnsupported
    \/ GetCopiedImage

Spec == Init /\ [][Next]_vars

-----------------------------------------------------------------------------
(* Copy called again on the same session, options and destination.        *)

\* the caller calls Copy once more: the locals of the call start afresh, the
\* accumulators and the destination stay
CopyAgain ==
    /\ pc = "done"
    /\ Len(history) < MaxRuns
    /\ pc' = "idle"
    /\ idx' = 1
    /\ copiedNum' = 0
    /\ errs' = <<>>
    /\ result' = [kind |-> "none"]
    /\ copierLog' = <<>>
    /\ destQueries' = 0
    /\ rawReads' = <<>>
    /\ configReads' = <<>>
    /\ UNCHANGED <<session, opts, dest, copiedList, copiedArch, copiedOS,
                   openInspectors, history, copiedImage, args, returned>>

\* list entries of the sessions that are copied twice
RerunShapes ==
    {sh \in EntryShapes :
        /\ sh.MediaType \in {DockerV2Schema2MediaType, DockerV2Schema1MediaType}
        /\ sh.Platform.OS = "linux"
        /\ sh.Platform.Variant = ""}

RerunSessions ==
    {ListSession(mime, shapes) :
        mime \in ListMIMEs,
        shapes \in UNION {[1..n -> RerunShapes] : n \in 0..MaxEntries}}

InitRerun ==
    /\ session \in RerunSessions
    /\ opts \in CopyOptions({TypeDocker})
    /\ dest \in {LeftByEntries(session, I) : I \in SUBSET Copyable(session)}
    /\ Fresh
    /\ args = NoCall
    /\ returned = NoCall

NextRerun ==
    \/ CopyListBegin
    \/ CopyDockerV2ListEntry
    \/ CopyImageIndexEntry
    \/ CopyListReturn
    \/ CopyAgain

SpecRerun == InitRerun /\ [][NextRerun]_vars

-----------------------------------------------------------------------------
(* needInspectConfig called on its own, over every tuple of a domain that  *)
(* holds the values its switch names and values it does not name.          *)

NeedInspectConfigArgs ==
    [osInfo : {"windows", "linux", "darwin", ""}, arch : {"amd64", "arm", "arm64"},
     variant : {"", "v7"}, osVersion : {"", "10.0.17763"},
     osFeatures : {<<>>, <<"win32k">>}]

InitNeedInspectConfig ==
    /\ session = ImageSession(DockerV2Schema2MediaType, PlainPlatform)
    /\ opts \in CopyOptions({TypeDocker})
    /\ opts.SigstorePrivateKey = ""
    /\ opts.Set.arch = {} /\ opts.Set.os = {} /\ opts.Set.variant = {}
    /\ dest = {}
    /\ Fresh
    /\ args \in {<<a>> : a \in NeedInspectConfigArgs}
    /\ returned = NoCall

\* a call of needInspectConfig with the arguments args[1]
CallNeedInspectConfig ==
    /\ args # NoCall
    /\ returned = NoCall
    /\ returned' = <<needInspectConfig(args[1].osInfo, args[1].arch, args[1].variant,
                                       args[1].osVersion, args[1].osFeatures)>>
    /\ UNCHANGED <<session, opts, dest, pc, idx, copiedNum, errs, result, copiedList,
                   copiedArch, copiedOS, copierLog, destQueries, openInspectors,
                   rawReads, configReads, history, copiedImage, args>>

NextNeedInspectConfig == CallNeedInspectConfig

SpecNeedInspectConfig == InitNeedInspectConfig /\ [][NextNeedInspectConfig]_vars

-----------------------------------------------------------------------------
(* The worker number of the sync command (commands/sync.go): prepareHangar *)
(* settles cc.jobs before it hands it to hangar.NewSyncer as Workers.      *)

\* utils.MIN_WORKER_NUM and utils.MAX_WORKER_NUM
MIN_WORKER_NUM == 1
MAX_WORKER_NUM == 20

\* the default of the --jobs flag
DefaultJobs == 1

\* the job counts a caller asks for
JobsRequested == (MIN_WORKER_NUM - JobsSlack)..(MAX_WORKER_NUM + JobsSlack)

\* prepareHangarJobs that passes any request through when debug is off
prepareHangarJobsUnchecked(debug, jobs) ==
    IF debug THEN 1 ELSE jobs

\* prepareHangar, lines 89-97: cc.jobs after the debug and range tests
prepareHangarJobs(debug, jobs) ==
    IF debug THEN 1
    ELSE IF jobs > MAX_WORKER_NUM \/ jobs < MIN_WORKER_NUM THEN 1
    ELSE jobs

InitWorkers ==
    /\ session = ImageSession(DockerV2Schema2MediaType, PlainPlatform)
    /\ opts \in CopyOptions({TypeDocker})
    /\ opts.SigstorePrivateKey = ""
    /\ opts.Set.arch = {} /\ opts.Set.os = {} /\ opts.Set.variant = {}
    /\ dest = {}
    /\ Fresh
    /\ args \in {<<[debug |-> d, jobs |-> j]>> : d \in BOOLEAN, j \in JobsRequested}
    /\ returned = NoCall

\* prepareHangar up to hangar.NewSyncer: Workers is cc.jobs
PrepareHangar ==
    /\ args # NoCall
    /\ returned = NoCall
    /\ returned' = <<prepareHangarJobs(args[1].debug, args[1].jobs)>>
    /\ UNCHANGED <<session, opts, dest, pc, idx, copiedNum, errs, result, copiedList,
                   copiedArch, copiedOS, copierLog, destQueries, openInspectors,
                   rawReads, configReads, history, copiedImage, args>>

NextWorkers == PrepareHangar

SpecWorkers == InitWorkers /\ [][NextWorkers]_vars

-----------------------------------------------------------------------------
(* Properties.  Under Spec a behaviour is one Copy call on a fresh         *)
(* session, so copiedList holds exactly what that call recorded.           *)

Recorded == {copiedList[i] : i \in DOMAIN copiedList}

IsListSession == session.mime \in ListMIMEs

\* C1  Filter soundness: every recorded ImageSpec is allowed by the call's
\* filter set on the arch, os and variant the spec records (after backfill).
FilterSoundness ==
    \A spec \in Recorded : Allow(opts.Set, spec.Arch, spec.OS, spec.Variant)

\* a recorded spec whose variant was backfilled from the image config, under a
\* filter that restricts the os
FilterSoundnessWitness ==
    /\ opts.Set.os # {}
    /\ \E i \in DOMAIN session.manifests :
          /\ session.manifests[i].Platform.Variant = ""
          /\ \E spec \in Recorded :
                /\ spec.Variant = ImageConfig(Manifest(spec.MediaType, i)).Variant
                /\ spec.Arch = session.manifests[i].Platform.Architecture

\* C2 as stated: in every flow a spec is recorded only after the destination
\* manifest was re-read, with the digest recomputed from the bytes read.
DigestRecomputedInEveryFlow ==
    \A spec \in Recorded :
        \E k \in DOMAIN rawReads : ManifestDigest(rawReads[k]) = spec.Digest

\* C2 amended: every recorded digest is the digest of a manifest the
\* destination stores; the list, index and schema-1 flows record it from the
\* re-read destination bytes, the schema-2 and OCI manifest flows record the
\* session's pre-computed manifestDigest without re-reading the destination.
DigestAuthoritative ==
    \A spec \in Recorded :
        /\ \E e \in dest : ManifestDigest(e.manifest) = spec.Digest
        /\ session.mime \in ListMIMEs \cup Schema1MIMEs =>
              \E k \in DOMAIN rawReads : ManifestDigest(rawReads[k]) = spec.Digest
        /\ session.mime \in {DockerV2Schema2MediaType, MediaTypeImageManifest} =>
              (rawReads = <<>> /\ spec.Digest = session.manifestDigest)

\* a list entry recorded with a digest no entry of the list advertises (the
\* copy converted it)
DigestAuthoritativeWitness ==
    /\ IsListSession
    /\ \E spec \in Recorded :
          \A i \in DOMAIN session.manifests : session.manifests[i].Digest # spec.Digest

\* the list entries before position n that the filter allows
AllowedBefore(n) ==
    {i \in DOMAIN session.manifests :
        /\ i < n
        /\ Allow(opts.Set, session.manifests[i].Platform.Architecture,
                 session.manifests[i].Platform.OS, session.manifests[i].Platform.Variant)}

ImageAllowed ==
    Allow(opts.Set, session.config.Architecture, session.config.OS, session.config.Variant)

InListFlow == IsListSession /\ pc \in {"list", "index", "done"}

ImageDone == session.mime \in ImageMIMEs /\ pc = "done"

CopierInvokedFor(i) ==
    \E k \in DOMAIN copierLog : copierLog[k].name = Encoded(session.manifests[i].Digest)

FailedAt(i, kinds) ==
    \E k \in DOMAIN errs : errs[k].entry = i /\ errs[k].err \in kinds

\* C4 as stated: with a sigstore key the copier is invoked for every allowed
\* list entry and for every allowed single image.
SigningInvokesCopierForEveryAllowed ==
    opts.SigstorePrivateKey # "" =>
        /\ InListFlow => \A i \in AllowedBefore(idx) : CopierInvokedFor(i)
        /\ (ImageDone /\ ImageAllowed) => Len(copierLog) = 1

\* C4 amended: with a sigstore key the fast path is never taken: HaveDigest
\* is not consulted, no entry is counted without being recorded, and the
\* copier is invoked for every allowed entry or image unless building a
\* reference failed or copyImage refused a list MIME.
SigningBypassesFastPath ==
    opts.SigstorePrivateKey # "" =>
        /\ destQueries = 0
        /\ InListFlow =>
              /\ copiedNum = Len(copiedList)
              /\ \A i \in AllowedBefore(idx) :
                    \/ CopierInvokedFor(i)
                    \/ FailedAt(i, {"ErrBadReference", "ErrNotSingleImage"})
        /\ (ImageDone /\ ImageAllowed) =>
              \/ Len(copierLog) = 1
              \/ result.kind \in {"ErrBadReference", "ErrNotSingleImage"}

\* the copier was invoked with a key for a digest the destination already had
SigningBypassesFastPathWitness ==
    /\ opts.SigstorePrivateKey # ""
    /\ \E k \in DOMAIN copierLog : copierLog[k].present

\* C5  Per-entry errors never abort a list copy: every entry before the loop
\* position was filtered, counted or failed, the failures are accumulated in
\* entry order, the flow returns only after the last entry, and then a
\* failure makes it return the one error that joins them all.
PerEntryErrorsAccumulate ==
    InListFlow =>
        /\ idx <= Len(session.manifests) + 1
        /\ Len(errs) + copiedNum = Cardinality(AllowedBefore(idx))
        /\ \A k \in DOMAIN errs : errs[k].entry < idx
        /\ \A k \in DOMAIN errs : k > 1 => errs[k - 1].entry < errs[k].entry
        /\ pc = "done" => idx = Len(session.manifests) + 1
        /\ (pc = "done" /\ Len(errs) > 0) =>
              (result.kind = "composite" /\ result.joined = errs)

\* the first entry failed and the second was still copied and recorded
PerEntryErrorsAccumulateWitness ==
    /\ InListFlow
    /\ pc = "done"
    /\ Len(errs) = 1
    /\ errs[1].entry = 1
    /\ Len(copiedList) = 1

NoAvailableImageSentinel ==
    (InListFlow /\ pc = "done") =>
        /\ result.kind = "ErrNoAvailableImage" <=> (copiedNum = 0 /\ errs = <<>>)
        /\ (copiedNum = 0 /\ errs # <<>>) => result.kind = "composite"
        /\ (copiedNum > 0 /\ errs = <<>>) => result.kind = "nil"

\* a list with entries, none of them copied and none failed
NoAvailableImageSentinelWitness ==
    /\ InListFlow
    /\ pc = "done"
    /\ Len(session.manifests) > 0
    /\ result.kind = "ErrNoAvailableImage"

\* C8  A session whose MIME is none of the six known ones makes Copy return
\* an unsupported-MIME error without a copier call, a destination query or a
\* change of the accumulators.
UnsupportedMIMERejected ==
    (session.mime \notin ListMIMEs \cup ImageMIMEs /\ pc # "idle") =>
        /\ pc = "done"
        /\ result.kind = "ErrUnsupportedMIME"
        /\ copierLog = <<>>
        /\ destQueries = 0
        /\ rawReads = <<>>
        /\ copiedList = <<>> /\ copiedArch = {} /\ copiedOS = {}
        /\ dest \in {{}, LeftByImage(session, opts.destType)}

UnsupportedMIMERejectedWitness ==
    /\ session.mime = UnknownMediaType
    /\ pc = "done"
    /\ dest # {}

Schema1Done == session.mime \in Schema1MIMEs /\ pc = "done"

NameExists(name) == \E e \in dest : e.name = name

\* C9  Schema-1 rename: after a successful schema-1 copy into an OCI layout
\* the directory UNKNOW is gone and the directory named by the recomputed
\* digest holds the converted manifest; a failed rename returns an error and
\* records nothing; other destination types see no rename.
Schema1Rename ==
    Schema1Done =>
        /\ (result.kind = "nil" /\ opts.destType = TypeOci) =>
              /\ ~NameExists("UNKNOW")
              /\ Len(copiedList) = 1
              /\ \E e \in dest :
                    /\ e.name = Encoded(ManifestDigest(e.manifest))
                    /\ ManifestDigest(e.manifest) = copiedList[1].Digest
                    /\ e.manifest = rawReads[Len(rawReads)]
        /\ result.kind = "ErrRenameFailed" =>
              (copiedList = <<>> /\ opts.destType = TypeOci)
        /\ (result.kind = "nil" /\ opts.destType # TypeOci) =>
              (NameExists("UNKNOW") /\ Cardinality(dest) = 1)

\* a schema-1 image copied into an OCI layout and recorded
Schema1RenameWitness ==
    /\ Schema1Done
    /\ opts.destType = TypeOci
    /\ result.kind = "nil"
    /\ Len(copiedList) = 1

\* C10 as stated: the mediaType of every recorded spec is the MIME of the
\* manifest the destination stores under the recorded digest.
MediaTypeIsFinal ==
    \A spec \in Recorded :
        \E e \in dest :
            /\ ManifestDigest(e.manifest) = spec.Digest
            /\ e.manifest.mediaType = spec.MediaType

\* every list entry the filter allows has its digest at the destination
AllAllowedPresent ==
    \A i \in AllowedBefore(Len(session.manifests) + 1) :
        HaveDigest(dest, session.manifests[i].Digest)

AllowedEntries == AllowedBefore(Len(session.manifests) + 1)

\* a second Copy call with an empty key that has invoked no copier so far,
\* on a destination that has every entry the filter allows (at least one)
SecondRunOverPresent ==
    /\ IsListSession
    /\ Len(history) = 1
    /\ pc \in {"idle", "list", "index"}
    /\ opts.SigstorePrivateKey = ""
    /\ copierLog = <<>>
    /\ AllowedEntries # {}
    /\ AllAllowedPresent

-----------------------------------------------------------------------------
(* Single-image fast path, layers, accumulators and ordering.              *)

\* the destination had the session's digest when Copy was called: it has it
\* now and no copier call had to put it there
HadSessionDigest ==
    /\ HaveDigest(dest, session.manifestDigest)
    /\ \A k \in DOMAIN copierLog : copierLog[k].present

\* C11 as stated: for a schema-2 and for an OCI image manifest session that
\* the filter allows, with an empty key and a destination that already has
\* the session's manifest digest, Copy returns nil without a copier call.
SingleImageFastPath ==
    (/\ ImageDone
     /\ session.mime \in {DockerV2Schema2MediaType, MediaTypeImageManifest}
     /\ ImageAllowed
     /\ opts.SigstorePrivateKey = ""
     /\ HadSessionDigest) =>
        (copierLog = <<>> /\ result.kind = "nil")

\* the digests of the layers of a manifest that carry no URLs, in order
LocalLayerDigests(b) ==
    LET IsLocal(l) == l.URLs = <<>>
        local == SelectSeq(LayersDescriptors(b), IsLocal)
    IN  [k \in DOMAIN local |-> local[k].Digest]

ForeignLayerDigests(b) ==
    {LayersDescriptors(b)[k].Digest :
        k \in {j \in DOMAIN LayersDescriptors(b) : LayersDescriptors(b)[j].URLs # <<>>}}

\* C12  Foreign-layer exclusion: every recorded spec lists exactly the
\* digests of the layers without URLs of the manifest it was built from (the
\* destination manifest with the recorded digest), in manifest order, none of
\* a layer with URLs, and its config is that manifest's config digest.
ForeignLayerExclusion ==
    \A spec \in Recorded :
        \E e \in dest :
            /\ ManifestDigest(e.manifest) = spec.Digest
            /\ spec.Layers = LocalLayerDigests(e.manifest)
            /\ \A k \in DOMAIN spec.Layers :
                  spec.Layers[k] \notin ForeignLayerDigests(e.manifest)
            /\ spec.Config = ConfigDescriptorDigest(e.manifest)

\* a spec built by each recorder from a manifest that has a foreign layer
ForeignLayerExclusionWitness ==
    /\ IsListSession
    /\ \E spec \in Recorded :
          \E e \in dest :
              /\ ManifestDigest(e.manifest) = spec.Digest
              /\ e.manifest.mediaType = MediaTypeImageManifest
              /\ ForeignLayerDigests(e.manifest) # {}
              /\ Len(spec.Layers) = 2

\* C13  Session accumulators: the ArchList and the OsList GetCopiedImage
\* returns hold, each value once, exactly the arch and the os values of the
\* recorded specs, and Images is copiedList.
SessionAccumulators ==
    copiedImage # NoImage =>
        LET img == copiedImage[1]
            archs == {copiedList[i].Arch : i \in DOMAIN copiedList}
            oses == {copiedList[i].OS : i \in DOMAIN copiedList}
        IN  /\ {img.ArchList[k] : k \in DOMAIN img.ArchList} = archs
            /\ Len(img.ArchList) = Cardinality(archs)
            /\ {img.OsList[k] : k \in DOMAIN img.OsList} = oses
            /\ Len(img.OsList) = Cardinality(oses)
            /\ img.Images = copiedList

\* two recorded specs of one os and two archs
SessionAccumulatorsWitness ==
    /\ copiedImage # NoImage
    /\ Len(copiedList) = 2
    /\ Len(copiedImage[1].ArchList) = 2
    /\ Len(copiedImage[1].OsList) = 1

\* the list entries a recorded spec can come from: those whose copy leaves a
\* manifest with the recorded digest
Origins(spec) ==
    {i \in DOMAIN session.manifests :
        LET m == session.manifests[i]
        IN  spec.Digest =
                ManifestDigest(CopiedManifest(Manifest(m.MediaType, m.body), m.MediaType))}

EntryOf(spec) == CHOOSE i \in Origins(spec) : TRUE

Failed(i) == \E k \in DOMAIN errs : errs[k].entry = i

\* C14  Ordering: in a list or index copy every recorded spec comes from one
\* entry that the filter allows and that did not fail, and the specs are in
\* copiedList in the order of their entries, each entry at most once.
RecordedInListOrder ==
    InListFlow =>
        /\ \A j \in DOMAIN copiedList :
              /\ Cardinality(Origins(copiedList[j])) = 1
              /\ EntryOf(copiedList[j]) \in AllowedBefore(idx)
              /\ ~Failed(EntryOf(copiedList[j]))
        /\ \A j, k \in DOMAIN copiedList :
              j < k => EntryOf(copiedList[j]) < EntryOf(copiedList[k])

\* both entries of a list recorded
RecordedInListOrderWitness ==
    /\ InListFlow
    /\ pc = "done"
    /\ Len(copiedList) = 2
    /\ EntryOf(copiedList[1]) = 1
    /\ EntryOf(copiedList[2]) = 2

-----------------------------------------------------------------------------
(* Inspectors.                                                             *)

\* C15 as stated: during a list or index copy at most one manifest inspector
\* is open at any point, the inspector of an entry being released before the
\* next entry is processed.
OneInspectorPerEntry ==
    InListFlow => openInspectors <= 1

\* C16  Every inspector opened during a Copy call is closed when the call
\* has returned, whatever it returned.
InspectorsReleasedOnReturn ==
    pc = "done" => openInspectors = 0

\* a list copy that returned an error for an entry whose inspector was open
InspectorsReleasedOnReturnWitness ==
    /\ InListFlow
    /\ pc = "done"
    /\ rawReads # <<>>
    /\ \E k \in DOMAIN errs : errs[k].err \in {"ErrParse", "ErrManifestUnsupported"}
    /\ result.kind = "composite"

-----------------------------------------------------------------------------
(* Single-image errors.                                                    *)

\* the destination is as it was when Copy was called
DestUntouched == dest \in {{}, LeftByImage(session, opts.destType)}

\* C17  Single-image abort: a single-image flow that fails returns the error
\* of the failing step itself, has run no step after it, and has recorded
\* nothing.
SingleImageAbort ==
    (ImageDone /\ result.kind # "nil") =>
        /\ DOMAIN result = {"kind"}
        /\ result.kind \in {"ErrNoAvailableImage", "ErrBadReference", "ErrTransport",
                            "ErrInspectFailed", "ErrParse", "ErrRenameFailed"}
        /\ copiedList = <<>> /\ copiedArch = {} /\ copiedOS = {}
        /\ result.kind = "ErrNoAvailableImage" =>
              (~ImageAllowed /\ destQueries = 0 /\ copierLog = <<>> /\ DestUntouched)
        /\ result.kind = "ErrBadReference" =>
              (copierLog = <<>> /\ rawReads = <<>> /\ DestUntouched)
        /\ result.kind = "ErrTransport" =>
              (Len(copierLog) = 1 /\ rawReads = <<>> /\ DestUntouched)
        /\ result.kind \in {"ErrInspectFailed", "ErrParse", "ErrRenameFailed"} =>
              /\ session.mime \in Schema1MIMEs
              /\ Len(copierLog) = 1
              /\ NameExists("UNKNOW")
        /\ result.kind \in {"ErrParse", "ErrRenameFailed"} => Len(rawReads) = 1

\* a schema-1 copy whose rename failed
SingleImageAbortWitness ==
    /\ Schema1Done
    /\ result.kind = "ErrRenameFailed"
    /\ Len(copierLog) = 1
    /\ copiedList = <<>>

-----------------------------------------------------------------------------
(* Config backfill.                                                        *)

NeedsConfig(p) ==
    needInspectConfig(p.OS, p.Architecture, p.Variant, p.OSVersion, p.OSFeatures)

\* C18  Config backfill: in a list or index copy the config blob is asked
\* for only for entries whose tuple makes needInspectConfig true; a recorded
\* osVersion, osFeatures or variant is the list entry's when that is not
\* empty, the image config's when it is empty and needInspectConfig was true,
\* and empty otherwise; arch and os are the list entry's.
ConfigBackfill ==
    InListFlow =>
        /\ \A k \in DOMAIN configReads :
              NeedsConfig(session.manifests[configReads[k]].Platform)
        /\ \A spec \in Recorded :
              LET i == EntryOf(spec)
                  p == session.manifests[i].Platform
                  c == ImageConfig(CHOOSE b \in {e.manifest : e \in dest} :
                                       ManifestDigest(b) = spec.Digest)
                  fetched == \E k \in DOMAIN configReads : configReads[k] = i
              IN  /\ spec.Arch = p.Architecture
                  /\ spec.OS = p.OS
                  /\ fetched <=> NeedsConfig(p)
                  /\ spec.OSVersion = IF p.OSVersion # "" THEN p.OSVersion
                                      ELSE IF fetched THEN c.OSVersion ELSE ""
                  /\ spec.OSFeatures = IF p.OSFeatures # <<>> THEN p.OSFeatures
                                       ELSE IF fetched THEN c.OSFeatures ELSE <<>>
                  /\ spec.Variant = IF p.Variant # "" THEN p.Variant
                                    ELSE IF fetched THEN c.Variant ELSE ""

\* a windows entry with an osVersion and no osFeatures: the version is kept,
\* the features come from the config
ConfigBackfillWitness ==
    /\ InListFlow
    /\ \E spec \in Recorded :
          LET p == session.manifests[EntryOf(spec)].Platform
          IN  /\ p.OS = "windows"
              /\ p.OSVersion # ""
              /\ spec.OSVersion = p.OSVersion
              /\ p.OSFeatures = <<>>
              /\ spec.OSFeatures # <<>>

\* C19  needInspectConfig returns true exactly for os windows with an empty
\* osVersion or no osFeatures, and for os linux, arch arm with an empty
\* variant; the call changes nothing of the session.
NeedInspectConfigPolicy ==
    returned # NoCall =>
        LET a == args[1]
        IN  /\ returned[1] =
                  (\/ (a.osInfo = "windows" /\ (a.osVersion = "" \/ a.osFeatures = <<>>))
                   \/ (a.osInfo = "linux" /\ a.arch = "arm" /\ a.variant = ""))
            /\ pc = "idle"
            /\ copiedList = <<>> /\ copiedArch = {} /\ copiedOS = {}
            /\ dest = {}

\* true returned for a windows tuple that has a version and no features
NeedInspectConfigPolicyWitness ==
    /\ returned = <<TRUE>>
    /\ args[1].osInfo = "windows"
    /\ args[1].osVersion # ""
    /\ args[1].osFeatures = <<>>

\* C20 as stated: a list or index entry whose manifest is schema 1 is never
\* recorded and, once the copier ran for it, leaves a per-entry error.
Schema1InListRejected ==
    InListFlow =>
        \A i \in AllowedBefore(idx) :
            session.manifests[i].MediaType \in Schema1MIMEs =>
                /\ \A spec \in Recorded : i \notin Origins(spec)
                /\ CopierInvokedFor(i) => Failed(i)

-----------------------------------------------------------------------------
(* Refusal of list types, provenance, record order, workers, skips.        *)

Recordings(i) == {spec \in Recorded : i \in Origins(spec)}

IsPrefix(a, b) == Len(a) <= Len(b) /\ SubSeq(b, 1, Len(a)) = a

\* the step is an iteration that got through the copier and appended no error
RecordingStep ==
    /\ pc \in {"list", "index"}
    /\ Len(copierLog') = Len(copierLog) + 1
    /\ errs' = errs

\* C22  Recorded provenance is never rolled back: over the Copy calls of a
\* session every step leaves copiedList a prefix of its next value and
\* copiedArch and copiedOS subsets of theirs; the accumulators change by
\* exactly the one spec of an iteration that recorded, and no other step
\* (filtered, failed, skipped, return, the next call) changes them.
ProvenanceNeverRolledBack ==
    [][/\ IsPrefix(copiedList, copiedList')
       /\ copiedArch \subseteq copiedArch'
       /\ copiedOS \subseteq copiedOS'
       /\ RecordingStep =>
             /\ Len(copiedList') = Len(copiedList) + 1
             /\ copiedArch' = copiedArch \cup {copiedList'[Len(copiedList')].Arch}
             /\ copiedOS' = copiedOS \cup {copiedList'[Len(copiedList')].OS}
       /\ ~RecordingStep =>
             /\ copiedList' = copiedList
             /\ copiedArch' = copiedArch
             /\ copiedOS' = copiedOS]_vars

\* a first call that recorded one entry and failed on the other, and a
\* second call that recorded the other
ProvenanceNeverRolledBackWitness ==
    /\ Len(history) = 2
    /\ pc = "done"
    /\ history[1].result = "composite"
    /\ history[1].copied = 1
    /\ history[2].result = "nil"
    /\ Len(copiedList) = 2

\* the values of the arch and os fields, in lexical order
LexicalOrder == <<"amd64", "arm", "linux", "windows">>

LexRank(v) == CHOOSE k \in DOMAIN LexicalOrder : LexicalOrder[k] = v

IsSorted(list) ==
    \A i, j \in DOMAIN list : i < j => LexRank(list[i]) < LexRank(list[j])

\* C23 as stated: the ArchList and the OsList GetCopiedImage returns are
\* sorted.
CopiedImageListsSorted ==
    copiedImage # NoImage =>
        (IsSorted(copiedImage[1].ArchList) /\ IsSorted(copiedImage[1].OsList))

\* C23 amended: the ArchList and the OsList hold every key of copiedArch and
\* of copiedOS exactly once, in an order the map iteration chooses.
CopiedImageListsUnordered ==
    copiedImage # NoImage =>
        /\ copiedImage[1].ArchList \in RangeOrders(copiedArch)
        /\ \A i, j \in DOMAIN copiedImage[1].ArchList :
              i # j => copiedImage[1].ArchList[i] # copiedImage[1].ArchList[j]
        /\ copiedImage[1].OsList \in RangeOrders(copiedOS)
        /\ \A i, j \in DOMAIN copiedImage[1].OsList :
              i # j => copiedImage[1].OsList[i] # copiedImage[1].OsList[j]

\* an ArchList that is not in lexical order
CopiedImageListsUnorderedWitness ==
    /\ copiedImage # NoImage
    /\ copiedImage[1].ArchList = <<"arm", "amd64">>

Clamp(jobs) ==
    IF jobs < MIN_WORKER_NUM THEN MIN_WORKER_NUM
    ELSE IF jobs > MAX_WORKER_NUM THEN MAX_WORKER_NUM
    ELSE jobs

InRange(jobs) == MIN_WORKER_NUM <= jobs /\ jobs <= MAX_WORKER_NUM

\* C24 as stated: the worker number lies in [MIN_WORKER_NUM, MAX_WORKER_NUM],
\* an in-range request with debug off is passed through and an out-of-range
\* request is clamped into the range.
WorkersClamped ==
    returned # NoCall =>
        /\ InRange(returned[1])
        /\ (~args[1].debug /\ InRange(args[1].jobs)) => returned[1] = args[1].jobs
        /\ (~args[1].debug /\ ~InRange(args[1].jobs)) => returned[1] = Clamp(args[1].jobs)

\* C24 amended: the worker number lies in [MIN_WORKER_NUM, MAX_WORKER_NUM],
\* an in-range request with debug off is passed through, and an out-of-range
\* request, like any request with debug on, is replaced by 1; the default
\* request is 1.
WorkersBounded ==
    returned # NoCall =>
        /\ InRange(returned[1])
        /\ (~args[1].debug /\ InRange(args[1].jobs)) => returned[1] = args[1].jobs
        /\ (args[1].debug \/ ~InRange(args[1].jobs)) => returned[1] = 1
        /\ (~args[1].debug /\ args[1].jobs = DefaultJobs) => returned[1] = 1

\* a request above the range with debug off
WorkersBoundedWitness ==
    /\ returned # NoCall
    /\ ~args[1].debug
    /\ args[1].jobs > MAX_WORKER_NUM
    /\ returned[1] = 1

\* the list entries the call skipped on the fast path: allowed, not failed
\* and not given to the copier
Skipped ==
    {i \in AllowedBefore(idx) : ~Failed(i) /\ ~CopierInvokedFor(i)}

\* C25  Fast-path skips are counted but not recorded: a skipped entry has
\* its digest at the destination under an empty key and no spec in
\* copiedList; the copied count is the recorded specs plus the skips; a list
\* copy that skipped every allowed entry returns nil with empty accumulators
\* and GetCopiedImage then reports no image; a skipped schema-2 image returns
\* nil and records nothing.
SkipsCountedNotRecorded ==
    /\ InListFlow =>
          /\ \A i \in Skipped :
                /\ opts.SigstorePrivateKey = ""
                /\ HaveDigest(dest, session.manifests[i].Digest)
                /\ Recordings(i) = {}
          /\ copiedNum = Len(copiedList) + Cardinality(Skipped)
          /\ destQueries >= Cardinality(Skipped)
          /\ (pc = "done" /\ Skipped # {} /\ Skipped = AllowedEntries) =>
                /\ result.kind = "nil"
                /\ copiedList = <<>> /\ copiedArch = {} /\ copiedOS = {}
                /\ copiedImage # NoImage =>
                      /\ copiedImage[1].Images = <<>>
                      /\ copiedImage[1].ArchList = <<>>
                      /\ copiedImage[1].OsList = <<>>
    /\ (ImageDone /\ session.mime = DockerV2Schema2MediaType /\ ImageAllowed
        /\ opts.SigstorePrivateKey = "" /\ HadSessionDigest) =>
          /\ result.kind = "nil"
          /\ destQueries = 1
          /\ copiedList = <<>> /\ copiedArch = {} /\ copiedOS = {}

\* a list copy that skipped one entry and recorded the other
SkipsCountedNotRecordedWitness ==
    /\ InListFlow
    /\ pc = "done"
    /\ Cardinality(Skipped) = 1
    /\ Len(copiedList) = 1
    /\ copiedNum = 2

\* C26  Single-image filter rejection: a schema-2, schema-1 or OCI manifest
\* session whose platform the filter does not allow makes Copy return
\* ErrNoAvailableImage with no HaveDigest query, no copier call, no inspector
\* read, an untouched destination and empty accumulators.
SingleImageFilterRejection ==
    (ImageDone /\ ~ImageAllowed) =>
        /\ result.kind = "ErrNoAvailableImage"
        /\ destQueries = 0
        /\ copierLog = <<>>
        /\ rawReads = <<>>
        /\ openInspectors = 0
        /\ DestUntouched
        /\ copiedList = <<>> /\ copiedArch = {} /\ copiedOS = {}

\* a rejected schema-2 image whose digest the destination has, under an empty
\* key
SingleImageFilterRejectionWitness ==
    /\ ImageDone
    /\ ~ImageAllowed
    /\ session.mime = DockerV2Schema2MediaType
    /\ opts.SigstorePrivateKey = ""
    /\ HaveDigest(dest, session.manifestDigest)
    /\ result.kind = "ErrNoAvailableImage"

====
